---------------------------- MODULE Spec2Model ----------------------------
(***************************************************************************)
(* A model of the multi-file linter of tools/linter/adapters:              *)
(*   - python_info.py : ScopeInfo (apply_token, update), Ignores,          *)
(*                      FileInfo.make and its inner fill                    *)
(*   - multi_file.py  : _split_import, MultiFile.outgoing_imports          *)
(*                      (to_absolute), _parent_parts                        *)
(*   - multi_linter.py: AllFiles.info / incoming_imports / asdict and the  *)
(*                      _PythonFile helpers they call                       *)
(*                                                                         *)
(* A Python str the code takes apart (a source line, a module name, a     *)
(* comment) is a sequence of one-character strings, so that partition,     *)
(* split, strip, join and sorted are computed character by character, as  *)
(* the interpreter does.  A str the code only compares or uses as a key    *)
(* (a token type name, a field name) is a TLA+ string.                     *)
(***************************************************************************)
EXTENDS Integers, Sequences, FiniteSets, TLC

VARIABLES
    \* ---- FileInfo.make (python_info.py) ----
    pf,          \* the PythonFile: [tokens, blocks]
    file_info,   \* FileInfo: [blocks : Seq(ScopeInfo), top : ScopeInfo]
    mpc,         \* position inside make: "idle", "blocks", "fill", "top", "done"
    cur,         \* index (1-based) of the block the reversed zip is at
    target,      \* which ScopeInfo fill is filling: a block index, or 0 for top
    begin,       \* fill's cursor (0-based token index, as in the source)
    end,         \* fill's exclusive end
    kids,        \* fill's reversed list of pending children (0-based indices)
    applied,     \* history: scope -> sequence of token positions given to apply_token
    skipped,     \* history: scope -> sequence of child indices skipped over
    \* ---- one ScopeInfo under apply_token / update ----
    self,        \* the absorbing ScopeInfo
    other,       \* a finalized ScopeInfo to absorb
    pre,         \* history: self before the last call
    last,        \* history: the last call, [op, tok, raised]
    \* ---- import resolution (multi_file.py) ----
    call,        \* the last call and its arguments
    ret,         \* its result: [raised, value]
    \* ---- AllFiles (multi_linter.py) ----
    files,       \* the files of the run, as expanded: a set of [path, lines]
    expanded,    \* info's sorted sequence of them
    apc,         \* position of the run, or the exception that ended it
    info,        \* AllFiles.info under construction: sequence of [name, rec]
    imports,     \* AllFiles.incoming_imports under construction
    ipos,        \* <<file position, import position>> of the index loops
    output,      \* AllFiles.asdict()
    \* ---- serialization (AsData.asdict, python_info.py) ----
    data         \* the last asdict call and the mapping it returned

varsMake   == <<pf, file_info, mpc, cur, target, begin, end, kids, applied, skipped>>
varsScope  == <<self, other, pre, last>>
varsImport == <<call, ret>>
varsAll    == <<files, expanded, apc, info, imports, ipos, output>>
varsData   == <<data>>
vars       == <<varsMake, varsScope, varsImport, varsAll, varsData>>

\* what the actions of one part leave alone
FrameMake   == <<varsScope, varsImport, varsAll, varsData>>
FrameScope  == <<varsMake, varsImport, varsAll, varsData>>
FrameImport == <<varsMake, varsScope, varsAll, varsData>>
FrameAll    == <<varsMake, varsScope, varsImport, varsData>>
FrameData   == <<varsScope, varsImport, varsAll>>

\* nothing was serialized yet
NoData == [op |-> "none"]
DataIdle == data = NoData

-----------------------------------------------------------------------------
(* Bounds of the model *)

MaxTokens == 6     \* tokens of a file in FileInfo.make
MaxBlocks == 3     \* blocks of a file in FileInfo.make
MaxCalls == 2      \* apply_token calls on the absorbing ScopeInfo
MaxOtherCalls == 1 \* apply_token calls on the ScopeInfo to absorb
MaxDots == 3       \* leading dots of a relative module reference
MaxDepth == 2      \* ancestor package components of a file
MaxSymbols == 2    \* symbols of one import line
MaxFiles == 3      \* files of one AllFiles run

-----------------------------------------------------------------------------
(* Python's str, as sequences of characters *)

\* The characters of the model in code-point order (for sorted()).
Chars == <<" ", "#", "(", ")", "*", ",", ".", ":", "E", "F", "O", "S", "X", "[", "]",
           "_", "a", "b", "c", "d", "e", "f", "g", "h", "i", "k", "l",
           "m", "n", "o", "p", "q", "r", "s", "t", "u", "x", "y">>

Ord(c) == CHOOSE i \in 1..Len(Chars) : Chars[i] = c

\* s < t in Python's ordering of str
RECURSIVE StrLess(_, _)
StrLess(s, t) ==
    IF t = <<>> THEN FALSE
    ELSE IF s = <<>> THEN TRUE
    ELSE IF Head(s) = Head(t) THEN StrLess(Tail(s), Tail(t))
    ELSE Ord(Head(s)) < Ord(Head(t))

Min(a, b) == IF a <= b THEN a ELSE b
Max(a, b) == IF a >= b THEN a ELSE b

startswith(s, p) == Len(p) <= Len(s) /\ SubSeq(s, 1, Len(p)) = p
endswith(s, p) == Len(p) <= Len(s) /\ SubSeq(s, Len(s) - Len(p) + 1, Len(s)) = p

\* s.find(sub) + 1: the first 1-based index of sub in s, 0 when absent
find(s, sub) ==
    LET hits == {i \in 1..(Len(s) - Len(sub) + 1) : SubSeq(s, i, i + Len(sub) - 1) = sub}
    IN  IF hits = {} THEN 0 ELSE CHOOSE i \in hits : \A j \in hits : i <= j

\* s.rfind(sub) + 1
rfind(s, sub) ==
    LET hits == {i \in 1..(Len(s) - Len(sub) + 1) : SubSeq(s, i, i + Len(sub) - 1) = sub}
    IN  IF hits = {} THEN 0 ELSE CHOOSE i \in hits : \A j \in hits : i >= j

contains(s, sub) == find(s, sub) # 0

\* s.partition(sep) as <<before, sep or "", after>>
partition(s, sep) ==
    LET i == find(s, sep)
    IN  IF i = 0 THEN <<s, <<>>, <<>>>>
        ELSE <<SubSeq(s, 1, i - 1), sep, SubSeq(s, i + Len(sep), Len(s))>>

\* s.rpartition(sep)
rpartition(s, sep) ==
    LET i == rfind(s, sep)
    IN  IF i = 0 THEN <<<<>>, <<>>, s>>
        ELSE <<SubSeq(s, 1, i - 1), sep, SubSeq(s, i + Len(sep), Len(s))>>

\* s.lstrip(c) for a one-character c
RECURSIVE lstrip(_, _)
lstrip(s, c) == IF s # <<>> /\ Head(s) = c THEN lstrip(Tail(s), c) ELSE s

RECURSIVE rstrip(_, _)
rstrip(s, c) ==
    IF s # <<>> /\ s[Len(s)] = c THEN rstrip(SubSeq(s, 1, Len(s) - 1), c) ELSE s

\* s.strip(): the model's only whitespace is the blank
strip(s) == rstrip(lstrip(s, " "), " ")

\* s.replace(c, d) for one-character c and d
replace(s, c, d) == [i \in 1..Len(s) |-> IF s[i] = c THEN d ELSE s[i]]

\* s.replace(c, "") for a one-character c
remove(s, c) == SelectSeq(s, LAMBDA x : x # c)

\* s.split(c) for a one-character c: every piece, the empty ones too
RECURSIVE split_on(_, _)
split_on(s, c) ==
    LET i == find(s, <<c>>)
    IN  IF i = 0 THEN <<s>>
        ELSE <<SubSeq(s, 1, i - 1)>> \o split_on(SubSeq(s, i + 1, Len(s)), c)

\* s.split(): the words between runs of whitespace
split(s) == SelectSeq(split_on(s, " "), LAMBDA w : w # <<>>)

\* sep.join(parts)
RECURSIVE join(_, _)
join(sep, parts) ==
    IF parts = <<>> THEN <<>>
    ELSE IF Len(parts) = 1 THEN parts[1]
    ELSE parts[1] \o sep \o join(sep, Tail(parts))

\* sorted(seq) of strings, by insertion from the back: stable
RECURSIVE insert_sorted(_, _)
insert_sorted(x, seq) ==
    IF seq = <<>> THEN <<x>>
    ELSE IF ~StrLess(Head(seq), x) THEN <<x>> \o seq
    ELSE <<Head(seq)>> \o insert_sorted(x, Tail(seq))

RECURSIVE sorted(_)
sorted(seq) ==
    IF seq = <<>> THEN <<>>
    ELSE insert_sorted(Head(seq), sorted(Tail(seq)))

\* seq[:e] of Python for an integer e: a negative e counts from the end, and
\* an e outside the sequence is clipped, never an error
slice_to(seq, e) ==
    IF e >= 0 THEN SubSeq(seq, 1, Min(e, Len(seq)))
    ELSE SubSeq(seq, 1, Max(0, Len(seq) + e))

\* the set of a sequence's elements
Range(seq) == {seq[i] : i \in 1..Len(seq)}

\* seq[::-1]
reversed(seq) == [i \in 1..Len(seq) |-> seq[Len(seq) + 1 - i]]

\* collections.Counter: a function from its keys to positive counts
EmptyCounter == <<>>
count_of(c, k) == IF k \in DOMAIN c THEN c[k] ELSE 0
counter_add(c, k, n) ==
    IF n = 0 THEN c
    ELSE [j \in (DOMAIN c) \cup {k} |-> IF j = k THEN count_of(c, k) + n ELSE c[j]]
\* Counter.update(other Counter): adds the counts key by key
counter_update(c, d) ==
    [j \in (DOMAIN c) \cup (DOMAIN d) |-> count_of(c, j) + count_of(d, j)]
\* Counter.update(iterable of keys)
RECURSIVE counter_update_keys(_, _)
counter_update_keys(c, ks) ==
    IF ks = <<>> THEN c
    ELSE counter_update_keys(counter_add(c, Head(ks), 1), Tail(ks))

-----------------------------------------------------------------------------
(* python_info.py: tokens, Ignores, ScopeInfo *)

\* Words of the model, as str
S_def == <<"d", "e", "f">>
S_x == <<"x">>
S_noqa == <<"n", "o", "q", "a">>
S_mypy == <<"m", "y", "p", "y">>
S_type == <<"t", "y", "p", "e">>
S_ignore_open == <<"i", "g", "n", "o", "r", "e", "[">>

\* keyword.iskeyword, on the words of the model
iskeyword(s) ==
    s \in {S_def, <<"i", "f">>, <<"f", "r", "o", "m">>, <<"i", "m", "p", "o", "r", "t">>,
           <<"a", "s">>}

\* token.EXACT_TOKEN_TYPES inverted: exact operator types to their text.
\* tokenize reports every operator with type OP, which is not a key.
INVERSE_TOKEN_TYPES == [LPAR |-> "(", RPAR |-> ")", COMMA |-> ",", DOT |-> "."]

\* token.tok_name[t].lower()
tok_name_lower ==
    [NAME |-> "name", NUMBER |-> "number", OP |-> "op", COMMENT |-> "comment",
     NEWLINE |-> "newline", NL |-> "nl", INDENT |-> "indent", DEDENT |-> "dedent",
     ENDMARKER |-> "endmarker", ENCODING |-> "encoding",
     LPAR |-> "lpar", RPAR |-> "rpar", COMMA |-> "comma", DOT |-> "dot"]

_START_OF_LINE_TOKENS == {"DEDENT", "INDENT", "NEWLINE"}
_NON_CODE_TOKENS == {"COMMENT", "ENDMARKER", "ENCODING", "NL"}
_IGNORED_TOKENS == _START_OF_LINE_TOKENS \cup _NON_CODE_TOKENS

is_ignored_token(t) == t.type \in _IGNORED_TOKENS

\* The structural markers: the ignored token types that are not comments
StructuralTypes == _IGNORED_TOKENS \ {"COMMENT"}

EMPTY_IGNORES == <<"(", "N", "o", "n", "e", ")">>

IgnoresFields == <<"mypy", "noqa", "type">>
IgnoresName == [mypy |-> S_mypy, noqa |-> S_noqa, type |-> S_type]

NewIgnores == [mypy |-> EmptyCounter, noqa |-> EmptyCounter, type |-> EmptyCounter]

\* Ignores.update
Ignores_update(ig, o) ==
    [mypy |-> counter_update(ig.mypy, o.mypy),
     noqa |-> counter_update(ig.noqa, o.noqa),
     type |-> counter_update(ig.type, o.type)]

\* Ignores.apply_line, for one field f
apply_line_field(c, f, line) ==
    LET ignore == <<"#", " ">> \o IgnoresName[f] \o <<":", " ">>
                  \o (IF f = "type" THEN S_ignore_open ELSE <<>>)
        p == partition(line, ignore)
        pieces == split_on(partition(p[3], <<"]">>)[1], ",")
        stripped == [i \in 1..Len(pieces) |-> strip(pieces[i])]
        nonempty == SelectSeq(stripped, LAMBDA j : j # <<>>)
        ignores == IF nonempty = <<>> THEN <<EMPTY_IGNORES>> ELSE nonempty
    IN  IF p[2] # <<>> THEN counter_update_keys(c, ignores) ELSE c

\* Ignores.apply_line
apply_line(ig, line) ==
    [f \in {"mypy", "noqa", "type"} |-> apply_line_field(ig[f], f, line)]

NewScopeInfo ==
    [display_name |-> "", block_count |-> 0, line_start |-> -1, line_count |-> 0,
     token_count |-> 0, comment_total_length |-> 0, keyword_count |-> EmptyCounter,
     op_count |-> EmptyCounter, ignores |-> NewIgnores, children |-> <<>>]

\* vars(ScopeInfo) in declaration order, and what isinstance makes of each value
ScopeFields ==
    <<"display_name", "block_count", "line_start", "line_count", "token_count",
      "comment_total_length", "keyword_count", "op_count", "ignores", "children">>
FieldType ==
    [display_name |-> "str", block_count |-> "int", line_start |-> "int",
     line_count |-> "int", token_count |-> "int", comment_total_length |-> "int",
     keyword_count |-> "Counter", op_count |-> "Counter", ignores |-> "Ignores",
     children |-> "list"]

\* The body of update's loop for the fields left, stopping at the first raise.
\* A str or a list reaches the else branch, whose v.items() raises AttributeError.
RECURSIVE update_loop(_, _, _)
update_loop(sv, o, ks) ==
    IF ks = <<>> THEN [self |-> sv, raised |-> "None"]
    ELSE LET k == Head(ks)
             ty == FieldType[k]
         IN  IF k = "line_start" THEN update_loop(sv, o, Tail(ks))
             ELSE IF ty = "int"
                  THEN update_loop([sv EXCEPT ![k] = @ + o[k]], o, Tail(ks))
             ELSE IF ty = "Counter"
                  THEN update_loop([sv EXCEPT ![k] = counter_update(@, o[k])], o, Tail(ks))
             ELSE IF ty = "Ignores"
                  THEN update_loop([sv EXCEPT ![k] = Ignores_update(@, o[k])], o, Tail(ks))
             ELSE [self |-> sv, raised |-> "AttributeError"]

\* ScopeInfo.update: [self |-> self afterwards, raised |-> the exception or "None"]
update(sv, o) ==
    update_loop([sv EXCEPT !.line_start = Min(sv.line_start, o.line_start)], o, ScopeFields)

\* the op_name of apply_token
op_name(t) ==
    IF t \in DOMAIN INVERSE_TOKEN_TYPES THEN INVERSE_TOKEN_TYPES[t] ELSE tok_name_lower[t]

\* apply_token, lines 87-95: every token is counted, whatever its type
count_token(sv, tok) ==
    LET ls == IF sv.line_start = -1 THEN tok.start ELSE sv.line_start
    IN  [sv EXCEPT !.token_count = @ + 1,
                   !.line_start = ls,
                   !.line_count = tok.end - ls,
                   !.op_count = counter_add(@, op_name(tok.type), 1)]

\* apply_token, lines 97-102: keywords and comments
classify_token(sv, tok) ==
    IF tok.type = "NAME" /\ iskeyword(tok.string)
    THEN [sv EXCEPT !.keyword_count = counter_add(@, tok.string, 1)]
    ELSE IF tok.type = "COMMENT"
    THEN [sv EXCEPT !.comment_total_length = @ + Len(partition(tok.string, <<"#">>)[3]),
                    !.ignores = apply_line(@, tok.string)]
    ELSE sv

\* apply_token with an early return for the start-of-line tokens
apply_token_skipping(sv, tok) ==
    IF tok.type \in _START_OF_LINE_TOKENS THEN sv
    ELSE classify_token(count_token(sv, tok), tok)

\* ScopeInfo.apply_token
apply_token(sv, tok) == classify_token(count_token(sv, tok), tok)

-----------------------------------------------------------------------------
(* One ScopeInfo under apply_token and update *)

Tok(ty, s, line) == [type |-> ty, string |-> s, start |-> line, end |-> line]

C_noqa == <<"#", " ", "n", "o", "q", "a", ":", " ", "E", ",", "F">>
C_type == <<"#", " ", "t", "y", "p", "e", ":", " ", "i", "g", "n", "o", "r", "e", "[", "]">>

\* The tokens the scope is fed: a keyword, a name, an operator, two comments
\* with suppressions, and one token of every structural type
ScopeTokens ==
    {Tok("NAME", S_def, 1), Tok("NAME", S_x, 1), Tok("OP", <<"(">>, 1),
     Tok("COMMENT", C_noqa, 1), Tok("COMMENT", C_type, 2),
     Tok("NEWLINE", <<>>, 1), Tok("NL", <<>>, 2), Tok("INDENT", <<" ">>, 2),
     Tok("DEDENT", <<>>, 3), Tok("ENDMARKER", <<>>, 3), Tok("ENCODING", <<"u">>, 0)}

NoCall == [op |-> "none", tok |-> Tok("NAME", S_x, 0), raised |-> "None"]

ScopeIdle == self = NewScopeInfo /\ other = NewScopeInfo /\ pre = NewScopeInfo /\ last = NoCall

\* self.apply_token(tok)
ApplyToken(tok) ==
    /\ self.token_count < MaxCalls
    /\ self' = apply_token(self, tok)
    /\ pre' = self
    /\ last' = [op |-> "apply_token", tok |-> tok, raised |-> "None"]
    /\ UNCHANGED <<other, FrameScope>>

\* other.apply_token(tok): the child's own walk, which finalizes its stats
ApplyTokenOther(tok) ==
    /\ other.token_count < MaxOtherCalls
    /\ other' = apply_token(other, tok)
    /\ UNCHANGED <<self, pre, last, FrameScope>>

\* self.update(other); the model calls it once between other calls
Update ==
    /\ last.op # "update"
    /\ LET r == update(self, other)
       IN  /\ self' = r.self
           /\ last' = [op |-> "update", tok |-> last.tok, raised |-> r.raised]
    /\ pre' = self
    /\ UNCHANGED <<other, FrameScope>>

-----------------------------------------------------------------------------
(* FileInfo.make over a PythonFile *)

\* The ranges [begin, dedent] of up to MaxBlocks blocks over t tokens, in source
\* order: begins increase, and two blocks are nested or disjoint
Ranges(t) == {r \in (0..(t - 1)) \X (0..(t - 1)) : r[1] < r[2]}

Laminar(rs) ==
    \A i, j \in 1..Len(rs) :
        i < j => /\ rs[i][1] < rs[j][1]
                 /\ (rs[j][1] > rs[i][2] \/ rs[j][2] <= rs[i][2])

RangeSeqs(t) ==
    UNION {{rs \in [1..n -> Ranges(t)] : Laminar(rs)} : n \in 0..MaxBlocks}

\* block j (1-based) lies inside block i
Inside(rs, j, i) == i # j /\ rs[i][1] < rs[j][1] /\ rs[j][2] <= rs[i][2]

\* j is a direct child of i: inside i, and inside nothing that is inside i
IsChild(rs, j, i) ==
    Inside(rs, j, i) /\ ~\E k \in 1..Len(rs) : Inside(rs, k, i) /\ Inside(rs, j, k)

\* the elements of a set of integers in increasing order
RECURSIVE Ascending(_)
Ascending(S) ==
    IF S = {} THEN <<>>
    ELSE LET m == CHOOSE x \in S : \A y \in S : x <= y
         IN  <<m>> \o Ascending(S \ {m})

\* range(n) as a sequence: 0, ..., n - 1
range(n) == [i \in 1..n |-> i - 1]

BlockNames == <<"f", "g", "h", "k", "l">>

\* Block i of the tree: its children are 0-based indices, in source order
MakeBlock(rs, i) ==
    [begin |-> rs[i][1], dedent |-> rs[i][2], display_name |-> BlockNames[i],
     children |-> Ascending({j - 1 : j \in {k \in 1..Len(rs) : IsChild(rs, k, i)}})]

\* The token at 0-based position p: a block begins with def and ends with its
\* DEDENT, the file ends with ENDMARKER, every token is on a line of its own
MakeToken(rs, t, p) ==
    IF \E i \in 1..Len(rs) : rs[i][2] = p THEN Tok("DEDENT", <<>>, p + 1)
    ELSE IF \E i \in 1..Len(rs) : rs[i][1] = p THEN Tok("NAME", S_def, p + 1)
    ELSE IF p = t - 1 THEN Tok("ENDMARKER", <<>>, p + 1)
    ELSE Tok("NAME", S_x, p + 1)

PythonFiles ==
    UNION {{[tokens |-> [p \in 1..t |-> MakeToken(rs, t, p - 1)],
             blocks |-> [i \in 1..Len(rs) |-> MakeBlock(rs, i)]] : rs \in RangeSeqs(t)}
           : t \in 2..MaxTokens}

NoFile == [tokens |-> <<>>, blocks |-> <<>>]
NewFileInfo == [blocks |-> <<>>, top |-> NewScopeInfo]

MakeIdle ==
    /\ pf = NoFile /\ file_info = NewFileInfo /\ mpc = "idle" /\ cur = 0 /\ target = 0
    /\ begin = 0 /\ end = 0 /\ kids = <<>> /\ applied = <<>> /\ skipped = <<>>

\* the ScopeInfo fill works on: block target - 1, or top when target = 0
InfoOf(fi, tg) == IF tg = 0 THEN fi.top ELSE fi.blocks[tg]
WithInfo(fi, tg, sv) ==
    IF tg = 0 THEN [fi EXCEPT !.top = sv] ELSE [fi EXCEPT !.blocks[tg] = sv]

\* make, lines 140-141: one fresh ScopeInfo per block, and the reversed zip
\* starts at the last block
MakeStart ==
    /\ mpc = "start"
    /\ file_info' = [blocks |-> [i \in 1..Len(pf.blocks) |-> NewScopeInfo],
                     top |-> NewScopeInfo]
    /\ cur' = Len(pf.blocks)
    /\ mpc' = "blocks"
    /\ UNCHANGED <<pf, target, begin, end, kids, applied, skipped, FrameMake>>

\* fill's first two lines, for the scope tg with the arguments b, e, ks
FillEnter(tg, b, e, ks) ==
    /\ file_info' = WithInfo(file_info, tg, [InfoOf(file_info, tg) EXCEPT !.children = ks])
    /\ kids' = reversed(ks)
    /\ target' = tg
    /\ begin' = b
    /\ end' = e
    /\ mpc' = "fill"

\* the call fill(info, block.begin, block.dedent + 1, block.children) of the loop
FillBlock ==
    /\ mpc = "blocks" /\ cur >= 1
    /\ FillEnter(cur, pf.blocks[cur].begin, pf.blocks[cur].dedent + 1,
                 pf.blocks[cur].children)
    /\ UNCHANGED <<pf, cur, applied, skipped, FrameMake>>

\* the call fill(file_info.top, 0, N, range(N)), N the number of blocks
FillTop ==
    /\ mpc = "blocks" /\ cur = 0
    /\ FillEnter(0, 0, Len(pf.blocks), range(Len(pf.blocks)))
    /\ UNCHANGED <<pf, cur, applied, skipped, FrameMake>>

\* the condition of fill's if: a child is pending and the cursor reached its begin
AtChild == kids # <<>> /\ begin >= pf.blocks[kids[Len(kids)] + 1].begin

\* fill's loop, the branch that skips over a child
FillSkip ==
    /\ mpc = "fill" /\ begin < end /\ AtChild
    /\ begin' = pf.blocks[kids[Len(kids)] + 1].dedent
    /\ kids' = SubSeq(kids, 1, Len(kids) - 1)
    /\ skipped' = [skipped EXCEPT ![target] = Append(@, kids[Len(kids)])]
    /\ UNCHANGED <<pf, file_info, mpc, cur, target, end, applied, FrameMake>>

\* fill's loop, the branch that applies one token
FillApply ==
    /\ mpc = "fill" /\ begin < end /\ ~AtChild
    /\ file_info' = WithInfo(file_info, target,
                             apply_token(InfoOf(file_info, target), pf.tokens[begin + 1]))
    /\ begin' = begin + 1
    /\ applied' = [applied EXCEPT ![target] = Append(@, begin)]
    /\ UNCHANGED <<pf, mpc, cur, target, end, kids, skipped, FrameMake>>

\* fill returns to the loop over the blocks, which sets the display name
FillReturnBlock ==
    /\ mpc = "fill" /\ begin >= end /\ target # 0
    /\ file_info' = [file_info EXCEPT
                        ![("blocks")][target].display_name = pf.blocks[target].display_name]
    /\ cur' = cur - 1
    /\ mpc' = "blocks"
    /\ UNCHANGED <<pf, target, begin, end, kids, applied, skipped, FrameMake>>

\* fill returns for top: lines 147-149
FillReturnTop ==
    /\ mpc = "fill" /\ begin >= end /\ target = 0
    /\ file_info' = [file_info EXCEPT !.top.display_name = "(module)",
                                      !.top.children = <<>>]
    /\ mpc' = "done"
    /\ UNCHANGED <<pf, cur, target, begin, end, kids, applied, skipped, FrameMake>>

MakeNext ==
    \/ MakeStart
    \/ FillBlock
    \/ FillTop
    \/ FillSkip
    \/ FillApply
    \/ FillReturnBlock
    \/ FillReturnTop

ScopeNext ==
    \/ \E tok \in ScopeTokens : ApplyToken(tok)
    \/ \E tok \in ScopeTokens : ApplyTokenOther(tok)
    \/ Update

ImportIdle == call = [op |-> "none"] /\ ret = [raised |-> "None", value |-> <<>>]

AllIdle ==
    /\ files = {} /\ expanded = <<>> /\ apc = "idle" /\ info = <<>> /\ imports = <<>>
    /\ ipos = <<0, 0>> /\ output = <<>>

\* FileInfo.make on every file of PythonFiles
InitMake ==
    /\ pf \in PythonFiles
    /\ file_info = NewFileInfo /\ mpc = "start" /\ cur = 0 /\ target = 0
    /\ begin = 0 /\ end = 0 /\ kids = <<>>
    /\ applied = [i \in 0..Len(pf.blocks) |-> <<>>]
    /\ skipped = [i \in 0..Len(pf.blocks) |-> <<>>]
    /\ ScopeIdle /\ ImportIdle /\ AllIdle /\ DataIdle

SpecMake == InitMake /\ [][MakeNext]_vars

\* apply_token and update on one ScopeInfo
InitScope == ScopeIdle /\ MakeIdle /\ ImportIdle /\ AllIdle /\ DataIdle

SpecScope == InitScope /\ [][ScopeNext]_vars

-----------------------------------------------------------------------------
(* FileInfo.make: attribution of tokens to scopes *)

\* how often x occurs in seq
Occurrences(seq, x) == Cardinality({i \in 1..Len(seq) : seq[i] = x})

\* the blocks (1-based) that are a child of no other block
TopLevel == {i \in 1..Len(pf.blocks) :
                ~\E j \in 1..Len(pf.blocks) : (i - 1) \in Range(pf.blocks[j].children)}

\* the direct children (0-based) of block b whose range holds position p
ChildrenHolding(b, p) ==
    {c \in Range(pf.blocks[b].children) :
        pf.blocks[c + 1].begin <= p /\ p <= pf.blocks[c + 1].dedent}

\* C1: after make, every position p of [B.begin, B.dedent] is either applied
\* directly to B exactly once and in no direct child's range, or applied to B
\* not at all and inside the range of exactly one direct child that the walk
\* skipped; so a child's dedent token is not applied to child and parent both.
C1_ExactlyOnceDirect ==
    mpc = "done" =>
        \A b \in 1..Len(pf.blocks) :
            \A p \in pf.blocks[b].begin..pf.blocks[b].dedent :
                LET direct == Occurrences(applied[b], p)
                    holding == ChildrenHolding(b, p) \cap Range(skipped[b])
                IN  \/ direct = 1 /\ ChildrenHolding(b, p) = {}
                    \/ direct = 0 /\ Cardinality(holding) = 1

\* C2: after make, every block's token_count is the number of tokens of its
\* range, B.dedent - B.begin + 1.
C2_TokenCountIsRange ==
    mpc = "done" =>
        \A b \in 1..Len(pf.blocks) :
            file_info.blocks[b].token_count = pf.blocks[b].dedent - pf.blocks[b].begin + 1

\* C3: after make, the walk of top skipped exactly the top-level blocks, and
\* every token of the file outside all of them was applied to top exactly once.
C3_TopWalksWholeFile ==
    mpc = "done" =>
        /\ Range(skipped[0]) = {i - 1 : i \in TopLevel}
        /\ \A p \in 0..(Len(pf.tokens) - 1) :
              (\A i \in TopLevel : p < pf.blocks[i].begin \/ p > pf.blocks[i].dedent)
                  => Occurrences(applied[0], p) = 1

-----------------------------------------------------------------------------
(* ScopeInfo.apply_token and ScopeInfo.update *)

StructuralCall == last.op = "apply_token" /\ last.tok.type \in StructuralTypes

\* the operator histogram's key for each structural token type
StructuralKey ==
    [INDENT |-> "indent", DEDENT |-> "dedent", NEWLINE |-> "newline", NL |-> "nl",
     ENDMARKER |-> "endmarker", ENCODING |-> "encoding"]

MergedFields(sv) ==
    <<sv.token_count, sv.comment_total_length, sv.block_count, sv.keyword_count,
      sv.op_count, sv.ignores>>

\* finalized stats of a child that received one token
OneTokenStats == {apply_token(NewScopeInfo, t) : t \in ScopeTokens}

\* C5: absorbing finalized stats completes (update raises nothing) and adds
\* the absorbed counts, and absorbing that child and any second child in
\* either order completes with identical counts and histograms.
C5_MergeOrderIndependent ==
    last.op = "update" =>
        /\ last.raised = "None"
        /\ self.token_count = pre.token_count + other.token_count
        /\ \A c \in OneTokenStats :
              LET ab == update(update(pre, other).self, c)
                  ba == update(update(pre, c).self, other)
              IN  /\ ab.raised = "None" /\ ba.raised = "None"
                  /\ MergedFields(ab.self) = MergedFields(ba.self)

-----------------------------------------------------------------------------
(* multi_file.py: _split_import and MultiFile.outgoing_imports *)

S_from == <<"f", "r", "o", "m">>
S_import == <<"i", "m", "p", "o", "r", "t">>
S_dot == <<".">>

Returned(v) == [raised |-> "None", value |-> v]
Raised(e) == [raised |-> e, value |-> <<>>]

\* _split_import, lines 100-108: the source and the symbols clause of a line
split_source(line) ==
    LET p == partition(line, <<" ">> \o S_import \o <<" ">>)
        words == split(p[1])
        src == Tail(words)
        q == partition(line, S_import \o <<" ">>)
    IN  IF p[3] # <<>>
        THEN IF words = <<>> THEN Raised("ValueError")
             ELSE IF Head(words) # S_from THEN Raised("AssertionError")
             ELSE IF ~(Len(src) = 1 \/ (Len(src) = 2 /\ src[1] = S_dot))
                  THEN Raised("AssertionError")
             ELSE Returned([source |-> join(<<>>, src), symbols |-> p[3]])
        ELSE IF q[1] # <<>> THEN Raised("AssertionError")
             ELSE Returned([source |-> q[1], symbols |-> q[3]])

\* _split_import, lines 111-114: one entry per symbol
split_symbols(source, symbols) ==
    LET syms == strip(replace(replace(symbols, "(", " "), ")", " "))
        dot == IF source # <<>> /\ ~endswith(source, S_dot) THEN S_dot ELSE <<>>
        pieces == split_on(syms, ",")
        words == [i \in 1..Len(pieces) |-> split(pieces[i])]
        parts == SelectSeq(words, LAMBDA w : w # <<>>)
    IN  [i \in 1..Len(parts) |-> source \o dot \o parts[i][1]]

\* _split_import from line 97 on: the line without its comment
split_uncommented(line) ==
    IF contains(line, <<"*">>) THEN Returned(<<>>)
    ELSE LET r == split_source(line)
         IN  IF r.raised # "None" THEN r
             ELSE Returned(split_symbols(r.value.source, r.value.symbols))

\* _split_import that keeps the comment
_split_import_with_comment(line) == split_uncommented(line)

\* _split_import
_split_import(line) == split_uncommented(partition(line, <<"#">>)[1])

\* to_absolute with the slice end off by one: -dot_count
to_absolute_one_less(parent_parts, module) ==
    LET root == lstrip(module, ".")
        dot_count == Len(module) - Len(root)
    IN  IF ~startswith(module, S_dot) THEN module
        ELSE join(S_dot, slice_to(parent_parts, -dot_count) \o <<root>>)

\* to_absolute of outgoing_imports; end is None when 1 - dot_count is 0
to_absolute(parent_parts, module) ==
    LET root == lstrip(module, ".")
        dot_count == Len(module) - Len(root)
        e == 1 - dot_count
        kept == IF e = 0 THEN parent_parts ELSE slice_to(parent_parts, e)
    IN  IF ~startswith(module, S_dot) THEN module
        ELSE join(S_dot, kept \o <<root>>)

\* A path is the sequence of its components, the file name last.
\* path.parents, nearest first, the last one being "."
parents(path) == [i \in 1..Len(path) |-> SubSeq(path, 1, Len(path) - i)]
\* Path.name: the last component, "" for "."
name_of(path) == IF path = <<>> THEN <<>> ELSE path[Len(path)]
\* Path.stem: the name without its last suffix
stem_of(path) ==
    LET nm == name_of(path)
        i == rfind(nm, S_dot)
    IN  IF i > 1 THEN SubSeq(nm, 1, i - 1) ELSE nm

\* MultiFile._parent_parts
_parent_parts(path) ==
    LET names == [i \in 1..Len(path) |-> name_of(reversed(parents(path))[i])]
    IN  SelectSeq(names, LAMBDA nm : nm # <<>>)

\* the flattening of a sequence of sequences
RECURSIVE flatten(_)
flatten(ss) == IF ss = <<>> THEN <<>> ELSE Head(ss) \o flatten(Tail(ss))

\* MultiFile.outgoing_imports, for the joined import lines of the file at path
outgoing_imports(path, lines) ==
    LET splits == [i \in 1..Len(lines) |-> _split_import(lines[i])]
        bad == {i \in 1..Len(lines) : splits[i].raised # "None"}
        all == flatten([i \in 1..Len(lines) |-> splits[i].value])
    IN  IF bad # {} THEN Raised(splits[CHOOSE i \in bad : \A j \in bad : i <= j].raised)
        ELSE Returned(sorted([i \in 1..Len(all) |-> to_absolute(_parent_parts(path), all[i])]))

-----------------------------------------------------------------------------
(* Calls of the import resolver *)

Repeat(c, n) == [i \in 1..n |-> c]

\* The shape of a well-formed import line: "import a as q, b" or
\* "from <dots><path> import a, b", the source written with its dots attached
\* or followed by a blank, the symbols bare, in parentheses or in parentheses
\* with a trailing comma, and the line with or without a trailing comment.
SymNames == {<<"S">>, <<"O">>, <<"a", ".", "b">>}
Symbols == [name : SymNames, alias : BOOLEAN]
SymbolLists == UNION {[1..n -> Symbols] : n \in 1..MaxSymbols}
SourcePaths == {<<>>, <<"s">>, <<"a", ".", "b">>}
Sources ==
    {src \in [dots : 0..2, path : SourcePaths, spaced : BOOLEAN] :
        /\ src.dots = 0 => src.path # <<>>
        /\ src.spaced => (src.dots >= 1 /\ src.path # <<>>)}
NoSource == [dots |-> 0, path |-> <<>>, spaced |-> FALSE]
Shapes ==
    [kind : {"from"}, source : Sources, symbols : SymbolLists,
     wrap : {"none", "parens", "trailing"}, comment : BOOLEAN]
    \cup [kind : {"import"}, source : {NoSource}, symbols : SymbolLists,
          wrap : {"none"}, comment : BOOLEAN]

\* a comment that holds a comma, a wildcard and the word import
LineComment == <<" ", "#", " ", "c", ",", " ", "*", " ">> \o S_import \o <<" ", "d">>

RenderSymbol(sym) == sym.name \o (IF sym.alias THEN <<" ", "a", "s", " ", "q">> ELSE <<>>)
RenderSymbols(syms) == join(<<",", " ">>, [i \in 1..Len(syms) |-> RenderSymbol(syms[i])])
RenderSource(src) ==
    Repeat(".", src.dots) \o (IF src.spaced THEN <<" ">> ELSE <<>>) \o src.path

\* the line as _join_tokens hands it over: its words separated by one blank
Render(sh) ==
    LET syms == RenderSymbols(sh.symbols)
        wrapped == CASE sh.wrap = "none" -> syms
                     [] sh.wrap = "parens" -> <<"(">> \o syms \o <<")">>
                     [] sh.wrap = "trailing" -> <<"(">> \o syms \o <<",", ")">>
        head == IF sh.kind = "import" THEN S_import \o <<" ">>
                ELSE S_from \o <<" ">> \o RenderSource(sh.source) \o <<" ">> \o S_import \o <<" ">>
    IN  head \o wrapped \o (IF sh.comment THEN LineComment ELSE <<>>)

\* lines that are not of these shapes: a wildcard import, a from clause without
\* a source, an import without a blank before the parenthesis, and a source
\* whose first word is not from
RawLines ==
    {S_from \o <<" ", "s", " ">> \o S_import \o <<" ", "*">>,
     S_from \o <<" ">> \o S_import \o <<" ", "S">>,
     S_from \o <<" ", "s", " ">> \o S_import \o <<"(", "S", ")">>,
     S_import \o <<" ", "s", " ">> \o S_import \o <<" ", "S">>}

\* the ancestor packages of a file, and its path
PackageNames == {<<"p">>, <<"q">>}
ParentParts == UNION {[1..n -> PackageNames] : n \in 0..MaxDepth}
FileNames == {<<"m", ".", "p", "y">>, <<"_", "_", "i", "n", "i", "t", "_", "_", ".", "p", "y">>}
Paths == {pp \o <<fn>> : pp \in ParentParts, fn \in FileNames}

Roots == {<<"x">>, <<"a", ".", "b">>}

\* the import lines a file of the model is made of
FileLines ==
    RawLines \cup
    {Render(sh) : sh \in
        {t \in Shapes : /\ t.wrap = "none" /\ ~t.comment /\ Len(t.symbols) = 1
                        /\ ~t.symbols[1].alias /\ t.symbols[1].name = <<"S">>
                        /\ t.source.path # <<"a", ".", "b">>}}
FileLineSeqs == UNION {[1..n -> FileLines] : n \in 0..2}

\* the calls of the model, each with its arguments
SplitImportCalls ==
    {[op |-> "_split_import", shaped |-> TRUE, shape |-> sh, line |-> Render(sh)] :
        sh \in Shapes}
SplitImportRawCalls ==
    {[op |-> "_split_import_raw", shaped |-> FALSE, line |-> line] : line \in RawLines}
ToAbsoluteCalls ==
    {[op |-> "to_absolute", parent_parts |-> pp, dots |-> d, root |-> root,
      module |-> Repeat(".", d) \o root] :
        pp \in ParentParts, d \in 0..MaxDots, root \in Roots}
OutgoingImportsCalls ==
    {[op |-> "outgoing_imports", path |-> path, lines |-> lines] :
        path \in Paths, lines \in FileLineSeqs}

Pending == [raised |-> "pending", value |-> <<>>]

\* _split_import(line) on a line of a known shape
CallSplitImport ==
    /\ call.op = "_split_import" /\ ret = Pending
    /\ ret' = _split_import(call.line)
    /\ UNCHANGED <<call, FrameImport>>

\* _split_import(line) on another line
CallSplitImportRaw ==
    /\ call.op = "_split_import_raw" /\ ret = Pending
    /\ ret' = _split_import(call.line)
    /\ UNCHANGED <<call, FrameImport>>

\* to_absolute(module) inside a file with the given _parent_parts
CallToAbsolute ==
    /\ call.op = "to_absolute" /\ ret = Pending
    /\ ret' = Returned(to_absolute(call.parent_parts, call.module))
    /\ UNCHANGED <<call, FrameImport>>

\* the outgoing_imports property of a file
CallOutgoingImports ==
    /\ call.op = "outgoing_imports" /\ ret = Pending
    /\ ret' = outgoing_imports(call.path, call.lines)
    /\ UNCHANGED <<call, FrameImport>>

ImportNext ==
    \/ CallSplitImport
    \/ CallSplitImportRaw
    \/ CallToAbsolute
    \/ CallOutgoingImports

\* one call of the import resolver, its arguments drawn from the sets above
InitImport ==
    /\ call \in SplitImportCalls \cup SplitImportRawCalls \cup ToAbsoluteCalls
                \cup OutgoingImportsCalls
    /\ ret = Pending
    /\ MakeIdle /\ ScopeIdle /\ AllIdle /\ DataIdle

SpecImport == InitImport /\ [][ImportNext]_vars

-----------------------------------------------------------------------------
(* Relative resolution and the splitting of import lines *)

\* C6: resolving a reference whose d leading dots go deeper than the file's
\* ancestors (d - 1 > n) fails with an error instead of returning a path.
C6_OverDeepFails ==
    (call.op = "to_absolute" /\ ret # Pending /\ call.dots - 1 > Len(call.parent_parts))
        => ret.raised # "None"

\* C7: a reference with d >= 1 dots, d - 1 <= n, resolves to the first
\* n - (d - 1) ancestor components followed by root, joined by dots; one with
\* no dot is returned unchanged; and no entry of outgoing_imports starts with
\* a dot.
C7_RelativeResolution ==
    /\ (call.op = "to_absolute" /\ ret # Pending) =>
          LET n == Len(call.parent_parts)
              d == call.dots
          IN  /\ ret.raised = "None"
              /\ d = 0 => ret.value = call.root
              /\ (d >= 1 /\ d - 1 <= n) =>
                    ret.value = join(S_dot, SubSeq(call.parent_parts, 1, n - (d - 1))
                                            \o <<call.root>>)
    /\ (call.op = "outgoing_imports" /\ ret.raised = "None") =>
          \A i \in 1..Len(ret.value) : ret.value[i] = <<>> \/ ret.value[i][1] # "."

\* C7's case: two dots inside p.q drop q and keep p
C7_Witness ==
    /\ call.op = "to_absolute" /\ call.dots = 2
    /\ call.parent_parts = <<<<"p">>, <<"q">>>> /\ call.root = <<"x">>
    /\ ret.value = <<"p", ".", "x">>

\* the source a shape's entries are prefixed with: none for a plain import
ShapeSource(sh) ==
    IF sh.kind = "import" THEN <<>> ELSE Repeat(".", sh.source.dots) \o sh.source.path

\* C10: a line of a known shape (a spaced source having exactly one dot)
\* yields one entry per symbol, in source order: the symbol's name without its
\* alias, prefixed by the source and a dot unless the source is empty or ends
\* in a dot; the comment and the spacing of the source change nothing.
C10_SplitImport ==
    (/\ call.op = "_split_import" /\ ret # Pending
     /\ call.shape.source.spaced => call.shape.source.dots = 1) =>
        LET sh == call.shape
            source == ShapeSource(sh)
            prefix == IF source = <<>> \/ source[Len(source)] = "." THEN source
                      ELSE source \o S_dot
        IN  /\ ret.raised = "None"
            /\ Len(ret.value) = Len(sh.symbols)
            /\ \A i \in 1..Len(sh.symbols) : ret.value[i] = prefix \o sh.symbols[i].name

\* C10's case: "from . s import S as q, O # ..." gives .s.S and .s.O
C10_Witness ==
    /\ call.op = "_split_import"
    /\ call.shape.source = [dots |-> 1, path |-> <<"s">>, spaced |-> TRUE]
    /\ call.shape.comment
    /\ Len(call.shape.symbols) = 2 /\ call.shape.symbols[1].alias
    /\ ret.value = <<<<".", "s", ".", "S">>, <<".", "s", ".", "O">>>>

-----------------------------------------------------------------------------
(* multi_linter.py: _PythonFile and AllFiles *)

S_module == <<"(", "m", "o", "d", "u", "l", "e", ")">>
S_init == <<"_", "_", "i", "n", "i", "t", "_", "_">>

\* words.index(w) + 1, 0 standing for the ValueError of an absent word
index_of(words, w) ==
    LET hits == {i \in 1..Len(words) : words[i] = w}
    IN  IF hits = {} THEN 0 ELSE CHOOSE i \in hits : \A j \in hits : i <= j

\* _split_import of multi_linter.py, on the joined text of a token line
_split_import_tl(line) ==
    LET words == split(line)
        loc == index_of(words, S_import)
        before == join(<<" ">>, SubSeq(words, 1, loc - 1))
        after == join(<<" ">>, SubSeq(words, loc + 1, Len(words)))
        bare == strip(remove(remove(after, "("), ")"))
        pieces == split_on(bare, ",")
        stripped == SelectSeq([i \in 1..Len(pieces) |-> strip(pieces[i])],
                              LAMBDA ps : ps # <<>>)
        parts == [i \in 1..Len(stripped) |-> split(stripped[i])[1]]
        fp == partition(strip(before), S_from \o <<" ">>)
    IN  IF contains(line, <<"*">>) THEN Returned(<<>>)
        ELSE IF loc = 0 THEN Raised("ValueError")
        ELSE IF after = <<>> THEN Raised("AssertionError")
        ELSE IF before = <<>> THEN Returned(parts)
        ELSE IF fp[1] # <<>> THEN Raised("AssertionError")
        ELSE Returned([i \in 1..Len(parts) |-> fp[3] \o S_dot \o parts[i]])

\* _PythonFile._fix_module
_fix_module(parent_parts, module) ==
    LET root == lstrip(module, ".")
        diff == Len(module) - Len(root)
        e == 1 - diff
        kept == IF e = 0 THEN parent_parts ELSE slice_to(parent_parts, e)
    IN  IF diff = 0 THEN module ELSE join(S_dot, kept \o <<root>>)

\* _PythonFile.module_name
module_name(path) ==
    LET stem == stem_of(path)
    IN  join(S_dot, _parent_parts(path) \o (IF stem # S_init THEN <<stem>> ELSE <<>>))

\* _PythonFile.outgoing_imports, for the import lines of the file
outgoing_imports_tl(path, lines) ==
    LET splits == [i \in 1..Len(lines) |-> _split_import_tl(lines[i])]
        bad == {i \in 1..Len(lines) : splits[i].raised # "None"}
        all == flatten([i \in 1..Len(lines) |-> splits[i].value])
    IN  IF bad # {} THEN Raised(splits[CHOOSE i \in bad : \A j \in bad : i <= j].raised)
        ELSE Returned(sorted([i \in 1..Len(all) |-> _fix_module(_parent_parts(path), all[i])]))

\* a dict with the keys whose value is falsy (empty) left out
Truthy(d) == [k \in {j \in DOMAIN d : d[j] # <<>>} |-> d[k]]

\* _PythonFile.asdata: the path and the cached properties that are truthy
\* (those computed from the tokens and blocks alone are not modelled)
asdata(file) ==
    LET out == outgoing_imports_tl(file.path, file.lines)
    IN  IF out.raised # "None" THEN out
        ELSE Returned(Truthy([path |-> file.path,
                              module_name |-> module_name(file.path),
                              outgoing_imports |-> out.value]))

\* d.get(k, default)
get(d, k, default) == IF k \in DOMAIN d THEN d[k] ELSE default

\* d without the key k
without(d, k) == [j \in (DOMAIN d) \ {k} |-> d[j]]

\* a dict kept in insertion order is a sequence of [name, rec] items;
\* d[name] = rec replaces the value of a key already there
items_names(d) == [i \in 1..Len(d) |-> d[i].name]
items_set(d, name, rec) ==
    IF \E i \in 1..Len(d) : d[i].name = name
    THEN [i \in 1..Len(d) |-> IF d[i].name = name THEN [name |-> name, rec |-> rec] ELSE d[i]]
    ELSE Append(d, [name |-> name, rec |-> rec])

\* p < q for two paths: their parts compared in order
RECURSIVE PathLess(_, _)
PathLess(p, q) ==
    IF q = <<>> THEN FALSE
    ELSE IF p = <<>> THEN TRUE
    ELSE IF Head(p) = Head(q) THEN PathLess(Tail(p), Tail(q))
    ELSE StrLess(Head(p), Head(q))

\* sorted(set of files), by path
RECURSIVE sorted_files(_)
sorted_files(S) ==
    IF S = {} THEN <<>>
    ELSE LET f == CHOOSE x \in S : \A y \in S : x = y \/ PathLess(x.path, y.path)
         IN  <<f>> \o sorted_files(S \ {f})

\* incoming_imports with the import split at its first dot
import_key_first_dot(known, out) ==
    IF out \in known \/ ~contains(out, S_dot) THEN <<out, S_module>>
    ELSE <<partition(out, S_dot)[1], partition(out, S_dot)[3]>>

\* incoming_imports, lines 53-56: the root and symbol of one outgoing import
import_key(known, out) ==
    IF out \in known \/ ~contains(out, S_dot) THEN <<out, S_module>>
    ELSE <<rpartition(out, S_dot)[1], rpartition(out, S_dot)[3]>>

\* imports.setdefault(root, {}).setdefault(symbol, []).append(name)
index_append(ix, root, symbol, name) ==
    LET syms == get(ix, root, <<>>)
        lst == get(syms, symbol, <<>>)
        syms2 == [k \in (DOMAIN syms) \cup {symbol} |->
                     IF k = symbol THEN Append(lst, name) ELSE syms[k]]
    IN  [r \in (DOMAIN ix) \cup {root} |-> IF r = root THEN syms2 ELSE ix[r]]

\* AllFiles.asdict's inner asdict(file, d)
asdict_record(ix, name, d) ==
    LET incoming == get(ix, name, <<>>)
    IN  IF incoming # <<>>
        THEN [k \in (DOMAIN d) \cup {"incoming_imports"} |->
                 IF k = "incoming_imports" THEN incoming ELSE d[k]]
        ELSE d

\* the files of the model: a few paths, each with one of a few lists of lines
AllPaths ==
    {<<<<"m", ".", "p", "y">>>>,
     <<S_init \o <<".", "p", "y">>>>,
     <<<<"p">>, S_init \o <<".", "p", "y">>>>,
     <<<<"p">>, <<"m", ".", "p", "y">>>>,
     <<<<"p">>, <<"q", ".", "p", "y">>>>}

AllLineSeqs ==
    {<<>>,
     <<S_import \o <<" ", "p">>>>,
     <<S_from \o <<" ", ".", " ">> \o S_import \o <<" ", "m">>>>,
     <<S_from \o <<" ", "p", ".", "m", " ">> \o S_import \o <<" ", "S">>,
       S_import \o <<" ", "o", "s">>>>,
     <<S_from \o <<" ", "p", " ">> \o S_import \o <<" ", "m", ",", " ", "m">>>>,
     <<S_from \o <<" ", "p", " ">> \o S_import \o <<"(", "m", ")">>>>,
     <<S_from \o <<" ">> \o S_import \o <<" ", "m">>>>}

\* AllFiles(files): the run starts with its files
InitAll ==
    /\ \E ps \in SUBSET AllPaths :
          /\ Cardinality(ps) <= MaxFiles
          /\ \E f \in [ps -> AllLineSeqs] : files = {[path |-> q, lines |-> f[q]] : q \in ps}
    /\ expanded = <<>> /\ apc = "start" /\ info = <<>> /\ imports = <<>>
    /\ ipos = <<0, 0>> /\ output = <<>>
    /\ MakeIdle /\ ScopeIdle /\ ImportIdle /\ DataIdle

\* info, line 40: the expanded files, sorted
InfoStart ==
    /\ apc = "start"
    /\ expanded' = sorted_files(files)
    /\ ipos' = <<1, 0>>
    /\ apc' = "info"
    /\ UNCHANGED <<files, info, imports, output, FrameAll>>

\* info, lines 41-42: the record of the next file; nothing catches what
\* asdata or pop raises, so an exception ends the run
InfoFile ==
    /\ apc = "info" /\ ipos[1] <= Len(expanded)
    /\ \E r \in {asdata(expanded[ipos[1]])} :
           IF r.raised # "None"
           THEN apc' = r.raised /\ UNCHANGED <<info, ipos>>
           ELSE IF "module_name" \notin DOMAIN r.value
           THEN apc' = "KeyError" /\ UNCHANGED <<info, ipos>>
           ELSE /\ info' = items_set(info, r.value.module_name, without(r.value, "module_name"))
                /\ ipos' = <<ipos[1] + 1, 0>>
                /\ UNCHANGED apc
    /\ UNCHANGED <<files, expanded, imports, output, FrameAll>>

\* info is complete; asdict's first record asks for incoming_imports
InfoDone ==
    /\ apc = "info" /\ ipos[1] > Len(expanded)
    /\ apc' = "index"
    /\ ipos' = <<1, 1>>
    /\ UNCHANGED <<files, expanded, info, imports, output, FrameAll>>

\* the outgoing imports of the record the outer loop is at
OutgoingAt(k) == get(info[k].rec, "outgoing_imports", <<>>)

\* incoming_imports, lines 52-57: one turn of the inner loop
IndexAppend ==
    /\ apc = "index" /\ ipos[1] <= Len(info) /\ ipos[2] <= Len(OutgoingAt(ipos[1]))
    /\ \E key \in {import_key(Range(items_names(info)), OutgoingAt(ipos[1])[ipos[2]])} :
           imports' = index_append(imports, key[1], key[2], info[ipos[1]].name)
    /\ ipos' = <<ipos[1], ipos[2] + 1>>
    /\ UNCHANGED <<files, expanded, apc, info, output, FrameAll>>

\* incoming_imports, line 51: the outer loop moves to the next record
IndexNextFile ==
    /\ apc = "index" /\ ipos[1] <= Len(info) /\ ipos[2] > Len(OutgoingAt(ipos[1]))
    /\ ipos' = <<ipos[1] + 1, 1>>
    /\ UNCHANGED <<files, expanded, apc, info, imports, output, FrameAll>>

\* asdict, lines 27-32: every record, with its incoming imports if it has any
AsDict ==
    /\ apc = "index" /\ ipos[1] > Len(info)
    /\ output' = [n \in Range(items_names(info)) |->
                     asdict_record(imports, n,
                                   info[CHOOSE i \in 1..Len(info) : info[i].name = n].rec)]
    /\ apc' = "done"
    /\ UNCHANGED <<files, expanded, info, imports, ipos, FrameAll>>

AllNext ==
    \/ InfoStart
    \/ InfoFile
    \/ InfoDone
    \/ IndexAppend
    \/ IndexNextFile
    \/ AsDict

SpecAll == InitAll /\ [][AllNext]_vars

-----------------------------------------------------------------------------
(* Claims about AllFiles *)

\* the exceptions a malformed import line raises in _split_import
MalformedErrors == {"AssertionError", "ValueError"}

\* the files of the run whose import lines cannot be split
Malformed == {f \in files : outgoing_imports_tl(f.path, f.lines).raised \in MalformedErrors}

\* C8: a malformed import line in one file does not abort the run: no
\* exception of _split_import ends it, and a finished run has a record for
\* every file whose lines are well formed
C8_ErrorIsolation ==
    /\ apc \notin MalformedErrors
    /\ (apc = "done" /\ Malformed # {}) =>
           \A f \in files \ Malformed : module_name(f.path) \in DOMAIN output

\* every (record, position) of an outgoing import, in the order of the walk
ImportOccurrences ==
    flatten([a \in 1..Len(info) |-> [j \in 1..Len(OutgoingAt(a)) |-> <<a, j>>]])

\* s split at its last dot: the symbol is what follows it and has no dot
LastDotSplit(s) ==
    CHOOSE rs \in {<<SubSeq(s, 1, i - 1), SubSeq(s, i + 1, Len(s))>> :
                      i \in {k \in 1..Len(s) : s[k] = "."}} :
        \A k \in 1..Len(rs[2]) : rs[2][k] # "."

\* the root and symbol C9 gives to the resolved import s
ExpectedKey(s) ==
    IF (\E a \in 1..Len(info) : info[a].name = s) \/ (\A k \in 1..Len(s) : s[k] # ".")
    THEN <<s, S_module>>
    ELSE LastDotSplit(s)

\* the importers C9 lists under a root and symbol: one name per occurrence
ExpectedList(key) ==
    LET hits == SelectSeq(ImportOccurrences,
                          LAMBDA o : ExpectedKey(OutgoingAt(o[1])[o[2]]) = key)
    IN  [i \in 1..Len(hits) |-> info[hits[i][1]].name]

\* C9: in a finished run the index holds, under the root and symbol of each
\* resolved outgoing import, the importing module's name once per occurrence
\* in first-seen order, and nothing else; a module's output record carries
\* incoming_imports exactly when the index has an entry for the module
C9_IncomingIndex ==
    apc = "done" =>
        LET keys == {ExpectedKey(OutgoingAt(ImportOccurrences[i][1])[ImportOccurrences[i][2]]) :
                        i \in 1..Len(ImportOccurrences)}
        IN  /\ DOMAIN imports = {key[1] : key \in keys}
            /\ \A root \in DOMAIN imports :
                   /\ DOMAIN imports[root] = {key[2] : key \in {k \in keys : k[1] = root}}
                   /\ \A symbol \in DOMAIN imports[root] :
                          imports[root][symbol] = ExpectedList(<<root, symbol>>)
            /\ DOMAIN output = {info[a].name : a \in 1..Len(info)}
            /\ \A a \in 1..Len(info) :
                   LET n == info[a].name
                   IN  /\ ("incoming_imports" \in DOMAIN output[n]) <=> (n \in DOMAIN imports)
                       /\ n \in DOMAIN imports => output[n].incoming_imports = imports[n]
                       /\ \A k \in DOMAIN info[a].rec : output[n][k] = info[a].rec[k]

\* C9's case: a finished run where p.m.S was split at its last dot, one list
\* has two importers, and one record has incoming imports and another none
C9_Witness ==
    /\ apc = "done"
    /\ <<"p", ".", "m">> \in DOMAIN imports
    /\ <<"S">> \in DOMAIN imports[<<"p", ".", "m">>]
    /\ \E root \in DOMAIN imports : \E symbol \in DOMAIN imports[root] :
           Len(imports[root][symbol]) >= 2
    /\ \E n \in DOMAIN output : "incoming_imports" \in DOMAIN output[n]
    /\ \E n \in DOMAIN output : "incoming_imports" \notin DOMAIN output[n]

-----------------------------------------------------------------------------
(* python_info.py: serialization (AsData.asdict, _asdata) *)

\* multi_file.py's OMIT_FIELDS, and the omit arguments of the model
OMIT_FIELDS == {"children", "keyword_count", "op_count"}
Omits == {{}, OMIT_FIELDS}

\* the value of each type that is false in a condition
Falsy(ty) == CASE ty = "str" -> "" [] ty = "int" -> 0 [] OTHER -> <<>>

\* _asdata of a Counter, lines 162-163: the items whose count is truthy
_asdata_Counter(c) == [k \in {j \in DOMAIN c : c[j] # 0} |-> c[k]]

\* _asdata of an Ignores, lines 165-170 and then 162-163: the fields whose
\* converted Counter is truthy
_asdata_Ignores(ig) ==
    LET conv == [f \in DOMAIN ig |-> _asdata_Counter(ig[f])]
    IN  [f \in {g \in DOMAIN conv : conv[g] # <<>>} |-> conv[f]]

\* _asdata of a ScopeInfo: the fields whose converted value is truthy
_asdata_ScopeInfo(sv) ==
    LET conv == [k \in DOMAIN sv |->
                    CASE FieldType[k] = "Counter" -> _asdata_Counter(sv[k])
                      [] FieldType[k] = "Ignores" -> _asdata_Ignores(sv[k])
                      [] OTHER -> sv[k]]
    IN  [k \in {j \in DOMAIN conv : conv[j] # Falsy(FieldType[j])} |-> conv[k]]

\* ScopeInfo._default: dc.asdict(ScopeInfo())
_default == NewScopeInfo

\* Ignores.asdict, inherited from AsData
Ignores_asdict(ig) == _asdata_Ignores(ig)

\* ScopeInfo.asdict without the comparison with _default
ScopeInfo_asdict_truthy(sv, omit) ==
    LET d == _asdata_ScopeInfo(sv)
    IN  [k \in {j \in DOMAIN d : j \notin omit} |-> d[k]]

\* ScopeInfo.asdict
ScopeInfo_asdict(sv, omit) ==
    LET d == _asdata_ScopeInfo(sv)
    IN  [k \in {j \in DOMAIN d : j \notin omit /\ d[j] # _default[j]} |-> d[k]]

\* FileInfo.asdict
FileInfo_asdict(fi, omit) ==
    LET d == [top |-> ScopeInfo_asdict(fi.top, omit),
              blocks |-> [i \in 1..Len(fi.blocks) |-> ScopeInfo_asdict(fi.blocks[i], omit)]]
    IN  [k \in {j \in DOMAIN d : d[j] # <<>>} |-> d[k]]

\* f with the token at 1-based position p replaced by a comment with suppressions
WithComment(f, p) == [f EXCEPT !.tokens[p] = Tok("COMMENT", C_noqa, p)]

\* the files that are serialized: those of PythonFiles, and each of them with
\* one of its plain names replaced by a comment
DataFiles ==
    PythonFiles \cup
    UNION {{WithComment(f, p) : p \in {q \in 1..Len(f.tokens) : f.tokens[q].string = S_x}} :
              f \in PythonFiles}

\* test_serialize_empty: asdict of a fresh Ignores, ScopeInfo and FileInfo
SerializeEmpty ==
    /\ mpc = "start" /\ data = NoData
    /\ data' = [op |-> "test_serialize_empty",
                Ignores |-> Ignores_asdict(NewIgnores),
                ScopeInfo |-> ScopeInfo_asdict(NewScopeInfo, {}),
                FileInfo |-> FileInfo_asdict(NewFileInfo, {})]
    /\ UNCHANGED <<varsMake, FrameData>>

\* MultiFile._file_info: FileInfo.make(self).asdict(omit)
FileInfoAsDict(omit) ==
    /\ mpc = "done" /\ data = NoData
    /\ data' = [op |-> "FileInfo.asdict", omit |-> omit,
                value |-> FileInfo_asdict(file_info, omit)]
    /\ UNCHANGED <<varsMake, FrameData>>

\* asdict of one ScopeInfo of make's result: block tg - 1, or top when tg = 0
ScopeInfoAsDict(tg, omit) ==
    /\ mpc = "done" /\ data = NoData
    /\ data' = [op |-> "ScopeInfo.asdict", scope |-> tg, omit |-> omit,
                value |-> ScopeInfo_asdict(InfoOf(file_info, tg), omit)]
    /\ UNCHANGED <<varsMake, FrameData>>

\* asdict of the Ignores of one ScopeInfo of make's result
IgnoresAsDict(tg) ==
    /\ mpc = "done" /\ data = NoData
    /\ data' = [op |-> "Ignores.asdict", scope |-> tg,
                value |-> Ignores_asdict(InfoOf(file_info, tg).ignores)]
    /\ UNCHANGED <<varsMake, FrameData>>

DataNext ==
    \/ MakeStart
    \/ FillBlock
    \/ FillTop
    \/ FillSkip
    \/ FillApply
    \/ FillReturnBlock
    \/ FillReturnTop
    \/ SerializeEmpty
    \/ \E omit \in Omits : FileInfoAsDict(omit)
    \/ \E tg \in 0..Len(pf.blocks) : \E omit \in Omits : ScopeInfoAsDict(tg, omit)
    \/ \E tg \in 0..Len(pf.blocks) : IgnoresAsDict(tg)

\* FileInfo.make on every file of DataFiles, and the serialization of its result
InitData ==
    /\ pf \in DataFiles
    /\ file_info = NewFileInfo /\ mpc = "start" /\ cur = 0 /\ target = 0
    /\ begin = 0 /\ end = 0 /\ kids = <<>>
    /\ applied = [i \in 0..Len(pf.blocks) |-> <<>>]
    /\ skipped = [i \in 0..Len(pf.blocks) |-> <<>>]
    /\ ScopeIdle /\ ImportIdle /\ AllIdle /\ DataIdle

SpecData == InitData /\ [][DataNext]_vars

-----------------------------------------------------------------------------
(* Serialization: pruning of default values *)

\* the record r holds exactly the fields of the scope sv that are not omitted
\* and differ from the default (a line_start of 0 is dropped as well), each
\* with the scope's value, the ignores without their empty histograms
ScopePruned(r, sv, omit) ==
    /\ \A k \in DOMAIN r : k \notin omit /\ sv[k] # NewScopeInfo[k]
    /\ \A k \in (DOMAIN sv) \ omit :
          (sv[k] # NewScopeInfo[k] /\ ~(k = "line_start" /\ sv[k] = 0)) => k \in DOMAIN r
    /\ \A k \in (DOMAIN r) \ {"ignores"} : r[k] = sv[k]
    /\ "ignores" \in DOMAIN r =>
          /\ DOMAIN r.ignores = {f \in DOMAIN sv.ignores : sv.ignores[f] # EmptyCounter}
          /\ \A f \in DOMAIN r.ignores : r.ignores[f] = sv.ignores[f]

-----------------------------------------------------------------------------
(* FileInfo.make: the bookkeeping of children *)

\* C12: while a scope is walked, its children list holds the children skipped
\* so far and its block_count is their number; after make every block's
\* block_count is the number of its direct children and its children list is
\* its direct children in source order, and top's children list is empty and
\* its display_name is "(module)".
C12_ChildBookkeeping ==
    /\ mpc = "fill" =>
          /\ InfoOf(file_info, target).children = skipped[target]
          /\ InfoOf(file_info, target).block_count = Len(skipped[target])
    /\ mpc = "done" =>
          /\ \A b \in 1..Len(pf.blocks) :
                /\ file_info.blocks[b].block_count = Len(pf.blocks[b].children)
                /\ file_info.blocks[b].children = pf.blocks[b].children
          /\ file_info.top.children = <<>>
          /\ file_info.top.display_name = "(module)"

=============================================================================
